---- MODULE Spec2Model ----
(***************************************************************************)
(* Entitlement resolution, payment completion and signed-token minting of  *)
(* the beautyclass application.                                            *)
(*                                                                         *)
(*   - VideoPlayerWithAuth (client component): checkAuth, handlePayment    *)
(*   - POST /api/video/token (server route): the mint operation            *)
(*                                                                         *)
(* Every await of the source is a step boundary: the identity provider,    *)
(* the profiles table and the payment gateway answer between steps, and    *)
(* other viewers and mint calls may run in between.                        *)
(***************************************************************************)
EXTENDS Integers, Sequences, FiniteSets, TLC

\* ----------------------------------------------------------------- bounds
MaxTicks == 1          \* clock advances at most this many times
TickMs == 1500         \* milliseconds per clock advance
MaxMints == 1          \* mint requests received, per mint call slot
MaxAttempts == 1       \* handlePayment runs per viewer

\* ------------------------------------------------------- program constants
ExpiresIn == 3600      \* const expiresIn = 3600
MsPerSecond == 1000    \* Date.now() / 1000

\* ------------------------------------------------------------ value sets
None == "none"              \* null / undefined / absent, for strings
Null == [null |-> TRUE]     \* null, where the value would be an object
Users == {"u1", "u2"}
Viewers == {"tabA", "tabB"}
Mints == {"m1"}
CF_STREAM_KEY_ID == "kid1"
CF_STREAM_CUSTOMER_SUBDOMAIN == "customer-x"
courseId == "course1"

\* A profiles row is absent, or present with has_paid false or true.
RowStates == {"absent", "false", "true"}

\* The Authorization header, as the pieces startsWith/replace look at:
\* NoHeader is a request without the header; otherwise <<prefix, rest>>.
NoHeader == <<>>
Headers ==
    { NoHeader,
      <<"Basic ", "tok_u1">>,
      <<"Bearer ", "tok_u1">>,
      <<"Bearer ", "tok_u2">>,
      <<"Bearer ", "tok_bad">> }

\* The request body: unparseable, or an object whose videoId is missing
\* (None), empty, or a content id.
Malformed == "malformed"
VideoIds == {"vid123", "vid456"}
Bodies == {Malformed, None, ""} \cup VideoIds

\* Who is logged in in each tab: the two tabs of one user, two users, and a
\* tab without a session.
Sessions ==
    { [tabA |-> "u1", tabB |-> "u1"],
      [tabA |-> "u1", tabB |-> "u2"],
      [tabA |-> None, tabB |-> "u1"] }

\* The user a session token belongs to at the identity provider.
TokenUser(tok) ==
    CASE tok = "tok_u1" -> "u1"
      [] tok = "tok_u2" -> "u2"
      [] OTHER -> None

VARIABLES
    profiles,      \* the profiles table: user -> row state
    now,           \* Date.now(), in milliseconds
    session,       \* viewer -> the user logged in in that browser tab, or None
    authStatus,    \* viewer -> useState<AuthStatus>
    isProcessing,  \* viewer -> useState(false)
    ca,            \* viewer -> checkAuth's position and locals
    hp,            \* viewer -> handlePayment's position and locals
    alerts,        \* viewer -> the last alert() shown
    attempts,      \* viewer -> handlePayment runs started
    reloadedFor,   \* viewer -> user whose acknowledged upsert caused the reload
    mint,          \* mint call -> POST's position and locals
    response,      \* mint call -> the NextResponse returned, or Null
    mintCalls,     \* mint requests received so far
    keyLoads       \* getPrivateKey() executions so far

vars == <<profiles, now, session, authStatus, isProcessing, ca, hp, alerts,
          attempts, reloadedFor, mint, response, mintCalls, keyLoads>>

viewerVars == <<session, authStatus, isProcessing, ca, hp, alerts, attempts,
                reloadedFor>>
mintVars == <<mint, response, mintCalls, keyLoads>>

\* ============================================================ collaborators
Thrown == [kind |-> "thrown"]

\* supabase.auth.getUser: { data: { user }, error }, or a rejected promise.
\* `u` is the user the credential belongs to (None: no such user).
GetUserOutcomes(u) ==
    { [kind |-> "returned", user |-> None, error |-> TRUE], Thrown }
    \cup (IF u = None THEN {}
          ELSE {[kind |-> "returned", user |-> u, error |-> FALSE]})

\* from('profiles').select('has_paid').eq('id', u).single():
\* { data: profile, error }. No row is an error of single(); `cause` keeps
\* apart what the store knows (no row / outage), which the caller cannot see
\* in `error` alone.
SelectOutcomes(u) ==
    { [kind |-> "returned", data |-> Null, error |-> TRUE, cause |-> "outage"],
      Thrown }
    \cup (IF profiles[u] = "absent"
          THEN {[kind |-> "returned", data |-> Null, error |-> TRUE,
                 cause |-> "no_row"]}
          ELSE {[kind |-> "returned",
                 data |-> [has_paid |-> (profiles[u] = "true")],
                 error |-> FALSE, cause |-> "ok"]})

\* ===================================================== POST /api/video/token
\* Faulty variant: the startsWith('Bearer ') test forgotten
HeaderRejectedMissingOnly(authHeader) == authHeader = NoHeader

\* !authHeader || !authHeader.startsWith('Bearer ')
HeaderRejected(authHeader) ==
    authHeader = NoHeader \/ authHeader[1] # "Bearer "

\* authHeader.replace('Bearer ', '')
AccessToken(authHeader) == authHeader[2]

\* userError || !user
UserRejected(res) == res.error \/ res.user = None

\* profileError || !profile
ProfileMissing(res) == res.error \/ res.data = Null

\* Faulty variant: the has_paid check never refuses
NotPaidNever(profile) == FALSE

\* Faulty variant: the has_paid check with its negation lost
NotPaidInverted(profile) == profile.has_paid

\* !profile.has_paid
NotPaid(profile) == ~profile.has_paid

\* const { videoId } = body
VideoIdOf(body) == body

\* Faulty variant: the videoId check never refuses
VideoIdMissingNever(videoId) == FALSE

\* Faulty variant: videoId === undefined in place of !videoId
VideoIdMissingUndefinedOnly(videoId) == videoId = None

\* !videoId
VideoIdMissing(videoId) == videoId = None \/ videoId = ""

\* Faulty variant: the division to seconds forgotten
ExpirationTimeMs(nowMs) == nowMs + ExpiresIn

\* Math.floor(Date.now() / 1000) + expiresIn
ExpirationTime(nowMs) == (nowMs \div MsPerSecond) + ExpiresIn

\* new SignJWT({sub, kid}).setProtectedHeader(..).setExpirationTime(..).sign(key)
SignJWT(videoId, expirationTime, privateKey) ==
    [sub |-> videoId, kid |-> CF_STREAM_KEY_ID, alg |-> "RS256",
     exp |-> expirationTime, signedWith |-> privateKey]

\* NextResponse.json({ error }, { status })
ErrorResponse(status) ==
    [status |-> status, body |-> [error |-> "message"]]

\* NextResponse.json({ token, videoId, customerSubdomain, expiresIn })
TokenResponse(token, videoId) ==
    [status |-> 200,
     body |-> [token |-> token, videoId |-> videoId,
               customerSubdomain |-> CF_STREAM_CUSTOMER_SUBDOMAIN,
               expiresIn |-> ExpiresIn]]

\* Faulty variant: the catch block answering as if nothing was found
CatchResponseNotFound == ErrorResponse(404)

\* catch (error) { ... return NextResponse.json({ error }, { status: 500 }) }
CatchResponse == ErrorResponse(500)

MintIdle ==
    [pc |-> "idle", authHeader |-> NoHeader, body |-> None,
     userResult |-> Null, user |-> None, profile |-> Null, videoId |-> None,
     keyLoaded |-> FALSE, privateKey |-> None, dateNow |-> 0,
     expirationTime |-> 0, signCalls |-> 0, signResult |-> None,
     idpQueries |-> 0, storeQueries |-> 0]

\* return NextResponse.json(...): the call ends with response r
Respond(m, locals, r) ==
    /\ mint' = [mint EXCEPT ![m] = [locals EXCEPT !.pc = "idle"]]
    /\ response' = [response EXCEPT ![m] = r]

\* A request arrives; step 1 reads the Authorization header.
MintReceive(m) ==
    /\ mint[m].pc = "idle"
    /\ mintCalls < MaxMints * Cardinality(DOMAIN mint)
    /\ mintCalls' = mintCalls + 1
    /\ \E authHeader \in Headers, body \in Bodies :
         LET l == [MintIdle EXCEPT !.authHeader = authHeader, !.body = body]
         IN IF HeaderRejected(authHeader)
            THEN Respond(m, l, ErrorResponse(401))
            ELSE /\ mint' = [mint EXCEPT ![m] = [l EXCEPT !.pc = "getUser"]]
                 /\ response' = [response EXCEPT ![m] = Null]
    /\ UNCHANGED <<profiles, now, viewerVars, keyLoads>>

\* Step 2: await supabaseAdmin.auth.getUser(accessToken)
MintGetUser(m) ==
    /\ mint[m].pc = "getUser"
    /\ \E res \in GetUserOutcomes(TokenUser(AccessToken(mint[m].authHeader))) :
         LET l == [mint[m] EXCEPT !.idpQueries = @ + 1, !.userResult = res]
         IN IF res.kind = "thrown"
            THEN Respond(m, l, CatchResponse)
            ELSE IF UserRejected(res)
            THEN Respond(m, l, ErrorResponse(401))
            ELSE /\ mint' = [mint EXCEPT ![m] =
                               [l EXCEPT !.pc = "lookup", !.user = res.user]]
                 /\ UNCHANGED response
    /\ UNCHANGED <<profiles, now, viewerVars, mintCalls, keyLoads>>

\* Faulty variant: the videoId check moved in front of the entitlement checks
MintLookupVideoIdFirst(m) ==
    /\ mint[m].pc = "lookup"
    /\ \E res \in SelectOutcomes(mint[m].user) :
         LET l == [mint[m] EXCEPT !.storeQueries = @ + 1, !.profile = res]
         IN IF res.kind = "thrown" \/ mint[m].body = Malformed
            THEN Respond(m, l, CatchResponse)
            ELSE IF VideoIdMissing(VideoIdOf(mint[m].body))
            THEN Respond(m, l, ErrorResponse(400))
            ELSE IF ProfileMissing(res)
            THEN Respond(m, l, ErrorResponse(404))
            ELSE IF NotPaid(res.data)
            THEN Respond(m, l, ErrorResponse(403))
            ELSE /\ mint' = [mint EXCEPT ![m] = [l EXCEPT !.pc = "body"]]
                 /\ UNCHANGED response
    /\ UNCHANGED <<profiles, now, viewerVars, mintCalls, keyLoads>>

\* Faulty variant: the entitlement answer another call got for the same user
\* is reused, where there is one, in place of this call's own select
MintLookupCached(m) ==
    /\ mint[m].pc = "lookup"
    /\ LET cached == { mint[n].profile :
                         n \in { k \in DOMAIN mint \ {m} :
                                   /\ mint[k].user = mint[m].user
                                   /\ mint[k].profile # Null } }
       IN \E res \in (IF cached # {} THEN cached
                      ELSE SelectOutcomes(mint[m].user)) :
            LET l == [mint[m] EXCEPT !.storeQueries = @ + 1, !.profile = res]
            IN IF res.kind = "thrown"
               THEN Respond(m, l, CatchResponse)
               ELSE IF ProfileMissing(res)
               THEN Respond(m, l, ErrorResponse(404))
               ELSE IF NotPaid(res.data)
               THEN Respond(m, l, ErrorResponse(403))
               ELSE /\ mint' = [mint EXCEPT ![m] = [l EXCEPT !.pc = "body"]]
                    /\ UNCHANGED response
    /\ UNCHANGED <<profiles, now, viewerVars, mintCalls, keyLoads>>

\* Step 3: await the profiles select, then the has_paid checks.
MintLookup(m) ==
    /\ mint[m].pc = "lookup"
    /\ \E res \in SelectOutcomes(mint[m].user) :
         LET l == [mint[m] EXCEPT !.storeQueries = @ + 1, !.profile = res]
         IN IF res.kind = "thrown"
            THEN Respond(m, l, CatchResponse)
            ELSE IF ProfileMissing(res)
            THEN Respond(m, l, ErrorResponse(404))
            ELSE IF NotPaid(res.data)
            THEN Respond(m, l, ErrorResponse(403))
            ELSE /\ mint' = [mint EXCEPT ![m] = [l EXCEPT !.pc = "body"]]
                 /\ UNCHANGED response
    /\ UNCHANGED <<profiles, now, viewerVars, mintCalls, keyLoads>>

\* Step 4 and the synchronous part of step 5: await request.json(), the
\* videoId check, getPrivateKey() and the expiration time. keyOk is whether
\* createPrivateKey accepts the configured key.
MintBody(m) ==
    /\ mint[m].pc = "body"
    /\ IF mint[m].body = Malformed
       THEN /\ Respond(m, mint[m], CatchResponse)
            /\ UNCHANGED keyLoads
       ELSE LET videoId == VideoIdOf(mint[m].body)
                l == [mint[m] EXCEPT !.videoId = videoId]
                k == [l EXCEPT !.keyLoaded = TRUE]
            IN IF VideoIdMissing(videoId)
               THEN /\ Respond(m, l, ErrorResponse(400))
                    /\ UNCHANGED keyLoads
               ELSE /\ keyLoads' = keyLoads + 1
                    /\ \E keyOk \in BOOLEAN :
                         IF ~keyOk
                         THEN Respond(m, k, CatchResponse)
                         ELSE /\ mint' = [mint EXCEPT ![m] =
                                   [k EXCEPT !.pc = "sign",
                                             !.privateKey = "key",
                                             !.dateNow = now,
                                             !.expirationTime =
                                                 ExpirationTime(now)]]
                              /\ UNCHANGED response
    /\ UNCHANGED <<profiles, now, viewerVars, mintCalls>>

\* Step 5: await ...sign(privateKey), then the 200 response.
MintSign(m) ==
    /\ mint[m].pc = "sign"
    /\ \E signOk \in BOOLEAN :
         LET l == [mint[m] EXCEPT !.signCalls = @ + 1,
                                  !.signResult =
                                      IF signOk THEN "ok" ELSE "thrown"]
         IN IF ~signOk
            THEN Respond(m, l, CatchResponse)
            ELSE Respond(m, l,
                     TokenResponse(SignJWT(mint[m].videoId,
                                           mint[m].expirationTime,
                                           mint[m].privateKey),
                                   mint[m].videoId))
    /\ UNCHANGED <<profiles, now, viewerVars, mintCalls, keyLoads>>

POST(m) ==
    \/ MintReceive(m)
    \/ MintGetUser(m)
    \/ MintLookup(m)
    \/ MintBody(m)
    \/ MintSign(m)

\* ===================================================== VideoPlayerWithAuth
CaStart == [pc |-> "getUser", userResult |-> Null, user |-> None,
            profile |-> Null, storeQueries |-> 0]
HpIdle == [pc |-> "idle", user |-> None, paymentId |-> <<>>,
           response |-> Null, updateResult |-> None]

\* The state of a freshly mounted component: useState('loading'),
\* useState(false), and the effect that starts checkAuth.
Mounted(v) ==
    /\ authStatus' = [authStatus EXCEPT ![v] = "loading"]
    /\ isProcessing' = [isProcessing EXCEPT ![v] = FALSE]
    /\ ca' = [ca EXCEPT ![v] = CaStart]
    /\ hp' = [hp EXCEPT ![v] = HpIdle]

\* ---------------------------------------------------------------- checkAuth
\* Faulty variant: a failed lookup treated as entitled
StatusOfProfileFailOpen(res) ==
    IF res.error \/ res.data = Null THEN "paid"
    ELSE IF res.data.has_paid THEN "paid"
    ELSE "not_paid"

\* Faulty variant: the existence of the row taken for the entitlement,
\* has_paid not looked at
StatusOfProfileRowIsPaid(res) ==
    IF res.error \/ res.data = Null THEN "not_paid" ELSE "paid"

\* The status checkAuth sets from the profiles result.
StatusOfProfile(res) ==
    IF res.error \/ res.data = Null THEN "not_paid"
    ELSE IF res.data.has_paid THEN "paid"
    ELSE "not_paid"

\* Faulty variant: a missing identity shown as the payment prompt
StatusOfUserNotPaid(res) ==
    IF res.error \/ res.user = None THEN "not_paid" ELSE "loading"

\* The status checkAuth sets from the identity result; "loading" when it
\* sets none and goes on to the profiles query.
StatusOfUser(res) ==
    IF res.error \/ res.user = None THEN "not_logged_in" ELSE "loading"

\* const { data: { user }, error: userError } = await supabase.auth.getUser()
CheckAuthGetUser(v) ==
    /\ ca[v].pc = "getUser"
    /\ \E res \in GetUserOutcomes(session[v]) :
         IF res.kind = "thrown"
         THEN /\ ca' = [ca EXCEPT ![v].pc = "rejected", ![v].userResult = res]
              /\ UNCHANGED authStatus
         ELSE IF StatusOfUser(res) # "loading"
         THEN /\ authStatus' = [authStatus EXCEPT ![v] = StatusOfUser(res)]
              /\ ca' = [ca EXCEPT ![v].pc = "done", ![v].userResult = res]
         ELSE /\ ca' = [ca EXCEPT ![v].pc = "lookup", ![v].userResult = res,
                                  ![v].user = res.user]
              /\ UNCHANGED authStatus
    /\ UNCHANGED <<profiles, now, session, isProcessing, hp, alerts, attempts,
                   reloadedFor, mintVars>>

\* Faulty variant: an evaluation that finds no row creates one
CheckAuthLookupCreatesRow(v) ==
    /\ ca[v].pc = "lookup"
    /\ \E res \in SelectOutcomes(ca[v].user) :
         IF res.kind = "thrown"
         THEN /\ ca' = [ca EXCEPT ![v].pc = "rejected", ![v].profile = res,
                                  ![v].storeQueries = @ + 1]
              /\ UNCHANGED <<authStatus, profiles>>
         ELSE /\ authStatus' = [authStatus EXCEPT ![v] = StatusOfProfile(res)]
              /\ ca' = [ca EXCEPT ![v].pc = "done", ![v].profile = res,
                                  ![v].storeQueries = @ + 1]
              /\ profiles' = IF res.cause = "no_row"
                             THEN [profiles EXCEPT ![ca[v].user] = "false"]
                             ELSE profiles
    /\ UNCHANGED <<now, session, isProcessing, hp, alerts, attempts,
                   reloadedFor, mintVars>>

\* const { data: profile, error: profileError } = await ...single()
CheckAuthLookup(v) ==
    /\ ca[v].pc = "lookup"
    /\ \E res \in SelectOutcomes(ca[v].user) :
         IF res.kind = "thrown"
         THEN /\ ca' = [ca EXCEPT ![v].pc = "rejected", ![v].profile = res,
                                  ![v].storeQueries = @ + 1]
              /\ UNCHANGED authStatus
         ELSE /\ authStatus' = [authStatus EXCEPT ![v] = StatusOfProfile(res)]
              /\ ca' = [ca EXCEPT ![v].pc = "done", ![v].profile = res,
                                  ![v].storeQueries = @ + 1]
    /\ UNCHANGED <<profiles, now, session, isProcessing, hp, alerts, attempts,
                   reloadedFor, mintVars>>

checkAuth(v) == CheckAuthGetUser(v) \/ CheckAuthLookup(v)

\* ------------------------------------------------------------ handlePayment
\* PortOne.requestPayment resolves to a response without a code (success),
\* to no response at all, to a response with a code (failure, cancellation,
\* the hosted checkout abandoned), or rejects.
GatewayOutcomes ==
    { [kind |-> "returned", response |-> [code |-> None, message |-> None]],
      [kind |-> "returned", response |-> Null],
      [kind |-> "returned",
       response |-> [code |-> "FAILURE", message |-> "failed"]],
      Thrown }

\* Faulty variant: the result code never looked at
PaymentFailedNever(resp) == FALSE

\* response?.code
PaymentFailed(resp) == resp # Null /\ resp.code # None

\* `payment-${courseId}-${user.id}-${Date.now()}`
PaymentId(course, user, nowMs) == <<"payment", course, user, nowMs>>

\* Faulty variant: the button rendered whatever authStatus is
PaymentButtonAlways(v) == ~isProcessing[v]

\* Faulty variant: the disabled={isProcessing} attribute forgotten
PaymentButtonNeverDisabled(v) == authStatus[v] = "not_paid"

\* The payment button: rendered in not_paid only, disabled={isProcessing}.
PaymentButtonEnabled(v) == authStatus[v] = "not_paid" /\ ~isProcessing[v]

\* The end of a run that stays on the page: alert(msg), setIsProcessing(false).
\* What the run got from the gateway and the upsert stays readable; the
\* payment id is gone with the run.
EndPayment(v, locals, msg) ==
    /\ alerts' = [alerts EXCEPT ![v] = msg]
    /\ isProcessing' = [isProcessing EXCEPT ![v] = FALSE]
    /\ hp' = [hp EXCEPT ![v] = [locals EXCEPT !.pc = "idle",
                                            !.paymentId = <<>>]]

\* onClick: setIsProcessing(true), then the first await
HandlePaymentStart(v) ==
    /\ PaymentButtonEnabled(v)
    /\ attempts[v] < MaxAttempts
    /\ attempts' = [attempts EXCEPT ![v] = @ + 1]
    /\ isProcessing' = [isProcessing EXCEPT ![v] = TRUE]
    /\ hp' = [hp EXCEPT ![v] = [HpIdle EXCEPT !.pc = "getUser"]]
    /\ UNCHANGED <<profiles, now, session, authStatus, ca, alerts,
                   reloadedFor, mintVars>>

\* Faulty variant: the !user check dropped
NoUserNever(res) == FALSE

\* !user
NoUser(res) == res.user = None

\* Faulty variant: a payment run that finds no user also sets the status to
\* not_logged_in
HandlePaymentGetUserLogsOut(v) ==
    /\ hp[v].pc = "getUser"
    /\ \E res \in GetUserOutcomes(session[v]) :
         IF res.kind = "thrown"
         THEN EndPayment(v, hp[v], "generic_error") /\ UNCHANGED authStatus
         ELSE IF NoUser(res)
         THEN /\ EndPayment(v, hp[v], "login_required")
              /\ authStatus' = [authStatus EXCEPT ![v] = "not_logged_in"]
         ELSE /\ hp' = [hp EXCEPT ![v].pc = "gateway", ![v].user = res.user,
                          ![v].paymentId = PaymentId(courseId, res.user, now)]
              /\ UNCHANGED <<alerts, isProcessing, authStatus>>
    /\ UNCHANGED <<profiles, now, session, ca, attempts, reloadedFor,
                   mintVars>>

\* await supabase.auth.getUser(); paymentId; PortOne.requestPayment(...)
HandlePaymentGetUser(v) ==
    /\ hp[v].pc = "getUser"
    /\ \E res \in GetUserOutcomes(session[v]) :
         IF res.kind = "thrown"
         THEN EndPayment(v, hp[v], "generic_error")
         ELSE IF NoUser(res)
         THEN EndPayment(v, hp[v], "login_required")
         ELSE /\ hp' = [hp EXCEPT ![v].pc = "gateway", ![v].user = res.user,
                          ![v].paymentId = PaymentId(courseId, res.user, now)]
              /\ UNCHANGED <<alerts, isProcessing>>
    /\ UNCHANGED <<profiles, now, session, authStatus, ca, attempts,
                   reloadedFor, mintVars>>

\* Faulty variant: the tab shown as paid as soon as the gateway reports
\* success, before the upsert is answered
HandlePaymentGatewayOptimistic(v) ==
    /\ hp[v].pc = "gateway"
    /\ \E res \in GatewayOutcomes :
         IF res.kind = "thrown"
         THEN EndPayment(v, hp[v], "generic_error") /\ UNCHANGED authStatus
         ELSE LET l == [hp[v] EXCEPT !.response = res.response]
              IN IF PaymentFailed(res.response)
                 THEN EndPayment(v, l, "payment_failed")
                          /\ UNCHANGED authStatus
                 ELSE /\ hp' = [hp EXCEPT ![v] = [l EXCEPT !.pc = "upsert"]]
                      /\ authStatus' = [authStatus EXCEPT ![v] = "paid"]
                      /\ UNCHANGED <<alerts, isProcessing>>
    /\ UNCHANGED <<profiles, now, session, ca, attempts, reloadedFor,
                   mintVars>>

\* the gateway's answer, and the response?.code check
HandlePaymentGateway(v) ==
    /\ hp[v].pc = "gateway"
    /\ \E res \in GatewayOutcomes :
         IF res.kind = "thrown"
         THEN EndPayment(v, hp[v], "generic_error")
         ELSE LET l == [hp[v] EXCEPT !.response = res.response]
              IN IF PaymentFailed(res.response)
                 THEN EndPayment(v, l, "payment_failed")
                 ELSE /\ hp' = [hp EXCEPT ![v] = [l EXCEPT !.pc = "upsert"]]
                      /\ UNCHANGED <<alerts, isProcessing>>
    /\ UNCHANGED <<profiles, now, session, authStatus, ca, attempts,
                   reloadedFor, mintVars>>

\* Faulty variant: has_paid: false written
UpsertFalse(table, id) == [table EXCEPT ![id] = "false"]

\* Faulty variant: ignoreDuplicates, an existing row is left as it is
UpsertIgnoreDuplicates(table, id) ==
    IF table[id] = "absent" THEN [table EXCEPT ![id] = "true"] ELSE table

\* Faulty variant: update in place of upsert: no row, nothing written
UpsertAsUpdate(table, id) ==
    IF table[id] = "absent" THEN table ELSE [table EXCEPT ![id] = "true"]

\* upsert({ id, has_paid: true }, { onConflict: 'id' }) on the table
Upsert(table, id) == [table EXCEPT ![id] = "true"]

\* Faulty variant: a plain insert, which an existing row makes fail
InsertOutcomes(table, id) ==
    IF table[id] = "absent" THEN {"ok", "error", "thrown"}
    ELSE {"error", "thrown"}

\* The answers the upsert can give for user id: with onConflict: 'id' an
\* existing row takes none of them away.
UpsertOutcomes(table, id) == {"ok", "error", "thrown"}

\* the upsert's answer: { error: null } with the row written, { error } or a
\* rejection with the table as it was. On success alert and
\* window.location.reload(), which mounts the component afresh.
HandlePaymentUpsert(v) ==
    /\ hp[v].pc = "upsert"
    /\ \E outcome \in UpsertOutcomes(profiles, hp[v].user) :
         CASE outcome = "ok" ->
                /\ profiles' = Upsert(profiles, hp[v].user)
                /\ alerts' = [alerts EXCEPT ![v] = "payment_done"]
                /\ reloadedFor' = [reloadedFor EXCEPT ![v] = hp[v].user]
                /\ Mounted(v)
           [] outcome = "error" ->
                /\ EndPayment(v, [hp[v] EXCEPT !.updateResult = "error"],
                              "paid_but_unrecorded")
                /\ UNCHANGED <<profiles, authStatus, ca, reloadedFor>>
           [] outcome = "thrown" ->
                /\ EndPayment(v, [hp[v] EXCEPT !.updateResult = "thrown"],
                              "generic_error")
                /\ UNCHANGED <<profiles, authStatus, ca, reloadedFor>>
    /\ UNCHANGED <<now, session, attempts, mintVars>>

handlePayment(v) ==
    \/ HandlePaymentStart(v)
    \/ HandlePaymentGetUser(v)
    \/ HandlePaymentGateway(v)
    \/ HandlePaymentUpsert(v)

\* ------------------------------------------------------------------- render
\* The videoUrl prop of the course page (course.video_url).
videoUrl == "lesson1.mp4"

\* The last return of the component: with authStatus 'paid' and a videoUrl
\* it renders <VideoPlayer url={videoUrl} />, an iframe or a <video> element
\* on that URL.
VideoPlayerShown(v) == authStatus[v] = "paid" /\ videoUrl # None

\* ------------------------------------------------------------------ system
\* Date.now() advances.
Tick ==
    /\ now < MaxTicks * TickMs
    /\ now' = now + TickMs
    /\ UNCHANGED <<profiles, viewerVars, mintVars>>

Init ==
    /\ profiles \in [Users -> RowStates]
    /\ now = 0
    /\ session \in Sessions
    /\ authStatus = [v \in Viewers |-> "loading"]
    /\ isProcessing = [v \in Viewers |-> FALSE]
    /\ ca = [v \in Viewers |-> CaStart]
    /\ hp = [v \in Viewers |-> HpIdle]
    /\ alerts = [v \in Viewers |-> None]
    /\ attempts = [v \in Viewers |-> 0]
    /\ reloadedFor = [v \in Viewers |-> None]
    /\ mint = [m \in Mints |-> MintIdle]
    /\ response = [m \in Mints |-> Null]
    /\ mintCalls = 0
    /\ keyLoads = 0

Viewer(v) == checkAuth(v) \/ handlePayment(v)

\* The whole system: every tab, every mint call, the clock.
Next ==
    \/ \E v \in Viewers : checkAuth(v)
    \/ \E v \in Viewers : handlePayment(v)
    \/ \E m \in Mints : POST(m)
    \/ Tick

Spec == Init /\ [][Next]_vars

\* The client side alone: the tabs and the clock.
NextTabs ==
    \/ \E v \in Viewers : checkAuth(v)
    \/ \E v \in Viewers : handlePayment(v)
    \/ Tick

SpecTabs == Init /\ [][NextTabs]_vars

\* The minting service, with one tab evaluating and paying beside it; the
\* other tab stays as mounted.
Payer == "tabA"

InitMint == Init /\ session["tabB"] = "u1"

NextMint ==
    \/ \E m \in Mints : POST(m)
    \/ checkAuth(Payer)
    \/ handlePayment(Payer)
    \/ Tick

SpecMint == InitMint /\ [][NextMint]_vars

\* Two mint calls side by side, with the tab beside them that can evaluate and
\* pay in between.
ParallelMints == {"m1", "m2"}

InitParallel ==
    /\ profiles \in [Users -> RowStates]
    /\ now = 0
    /\ session = [tabA |-> "u1", tabB |-> "u1"]
    /\ authStatus = [v \in Viewers |-> "loading"]
    /\ isProcessing = [v \in Viewers |-> FALSE]
    /\ ca = [v \in Viewers |-> CaStart]
    /\ hp = [v \in Viewers |-> HpIdle]
    /\ alerts = [v \in Viewers |-> None]
    /\ attempts = [v \in Viewers |-> 0]
    /\ reloadedFor = [v \in Viewers |-> None]
    /\ mint = [m \in ParallelMints |-> MintIdle]
    /\ response = [m \in ParallelMints |-> Null]
    /\ mintCalls = 0
    /\ keyLoads = 0

\* The content id each of the two callers asks for.
Wanted == [m1 |-> "vid123", m2 |-> "vid456"]

\* A call that comes with the session token of a user and asks for the
\* caller's content id: the calls whose answer depends on the table.
ParallelCall(m) ==
    /\ POST(m)
    /\ mint'[m].authHeader \in {<<"Bearer ", "tok_u1">>, <<"Bearer ", "tok_u2">>}
    /\ mint'[m].body = Wanted[m]

\* The steps of the tab in which its identity provider, table and gateway
\* answer without a failure: it evaluates, pays, reloads and evaluates again.
PayerPays ==
    /\ checkAuth(Payer) \/ handlePayment(Payer)
    /\ ca'[Payer].pc # "rejected"
    /\ authStatus'[Payer] # "not_logged_in"
    /\ ca'[Payer].profile = Null \/ ca'[Payer].profile.cause # "outage"
    /\ alerts'[Payer] \in {None, "payment_done"}

NextParallel ==
    \/ \E m \in ParallelMints : ParallelCall(m)
    \/ PayerPays
    \/ Tick

SpecParallel == InitParallel /\ [][NextParallel]_vars

\* ================================================================== claims
\* What a finished mint call returned and what it saw on the way.
Answered(m) == response[m] # Null
HasToken(m) == Answered(m) /\ "token" \in DOMAIN response[m].body
ValidSession(m) ==
    /\ mint[m].userResult # Null
    /\ mint[m].userResult.kind = "returned"
    /\ ~mint[m].userResult.error
    /\ mint[m].userResult.user # None
LookupReturned(m) ==
    mint[m].profile # Null /\ mint[m].profile.kind = "returned"
LookupPaid(m) ==
    /\ LookupReturned(m)
    /\ ~mint[m].profile.error
    /\ mint[m].profile.data # Null
    /\ mint[m].profile.data.has_paid

\* C1: a mint call returns a token only if the lookup of that same call
\* returned, without error, a row with has_paid true; and the row of the
\* user the token was minted for is present with has_paid true when the
\* token is returned, whatever the payment handler did in between.
C1_TokenOnlyForPaid ==
    \A m \in Mints :
        HasToken(m) =>
            /\ ValidSession(m)
            /\ mint[m].storeQueries = 1
            /\ LookupPaid(m)
            /\ profiles[mint[m].user] = "true"

\* a token minted for the user whose payment the tab beside it completed
C1_Witness ==
    \E m \in Mints : HasToken(m) /\ reloadedFor[Payer] = mint[m].user

\* C2: a call without an Authorization header, or with one that does not
\* start with 'Bearer ', ends in 401 without a token and without a query to
\* the identity provider or to the profiles table; a call whose credential
\* the identity provider rejects ends in 401 without a token.
C2_Unauthorized ==
    \A m \in Mints :
        Answered(m) =>
            /\ (mint[m].authHeader = NoHeader
                    \/ mint[m].authHeader[1] # "Bearer ")
                => /\ response[m].status = 401
                   /\ ~HasToken(m)
                   /\ mint[m].idpQueries = 0
                   /\ mint[m].storeQueries = 0
            /\ (/\ mint[m].userResult # Null
                /\ mint[m].userResult.kind = "returned"
                /\ (mint[m].userResult.error
                        \/ mint[m].userResult.user = None))
                => /\ response[m].status = 401
                   /\ ~HasToken(m)
                   /\ mint[m].storeQueries = 0

\* a paid user's request refused for its header alone
C2_Witness ==
    \E m \in Mints :
        /\ Answered(m)
        /\ mint[m].authHeader = <<"Basic ", "tok_u1">>
        /\ response[m].status = 401
        /\ profiles["u1"] = "true"

\* C3: with a valid session, a lookup that finds no row ends the call in
\* 404, and one that returns a row with has_paid false ends it in 403; no
\* token in either case.
C3_NotFoundForbidden ==
    \A m \in Mints :
        (Answered(m) /\ ValidSession(m) /\ LookupReturned(m)) =>
            /\ mint[m].profile.cause = "no_row"
                => response[m].status = 404 /\ ~HasToken(m)
            /\ (mint[m].profile.cause = "ok"
                    /\ ~mint[m].profile.data.has_paid)
                => response[m].status = 403 /\ ~HasToken(m)

\* an unpaid user with a valid session and a content id is refused with 403
C3_Witness ==
    \E m \in Mints :
        /\ Answered(m)
        /\ ValidSession(m)
        /\ LookupReturned(m)
        /\ mint[m].profile.cause = "ok"
        /\ mint[m].body = "vid123"
        /\ response[m].status = 403

\* C4: a paid user with a valid session whose body has no videoId, or the
\* empty one, gets 400 and no token, and getPrivateKey is not called.
C4_BadRequest ==
    \A m \in Mints :
        (/\ Answered(m)
         /\ ValidSession(m)
         /\ LookupPaid(m)
         /\ mint[m].body \in {None, ""})
            => /\ response[m].status = 400
               /\ ~HasToken(m)
               /\ ~mint[m].keyLoaded
               /\ mint[m].privateKey = None

\* the empty videoId of a paid user answered with 400
C4_Witness ==
    \E m \in Mints :
        /\ Answered(m)
        /\ LookupPaid(m)
        /\ mint[m].body = ""
        /\ response[m].status = 400

\* C5: a token returned for a request has the requested videoId as its
\* subject and expires 3600 seconds after the second in which the call read
\* the clock; the body repeats the videoId and says expiresIn 3600.
C5_TokenClaims ==
    \A m \in Mints :
        HasToken(m) =>
            /\ mint[m].body \in VideoIds
            /\ response[m].status = 200
            /\ response[m].body.token.sub = mint[m].body
            /\ response[m].body.token.exp = (mint[m].dateNow \div 1000) + 3600
            /\ response[m].body.videoId = mint[m].body
            /\ response[m].body.expiresIn = 3600

\* a token for the second content id, minted after the clock has advanced
\* into a second that is not a whole number of milliseconds away
C5_Witness ==
    \E m \in Mints :
        /\ HasToken(m)
        /\ mint[m].body = "vid456"
        /\ mint[m].dateNow > 0
        /\ response[m].body.token.exp > 3600

\* What a tab's evaluation saw.
CaIdentityResolved(v) == ca[v].user # None
CaLookupGood(v) ==
    /\ ca[v].profile # Null
    /\ ca[v].profile.kind = "returned"
    /\ ~ca[v].profile.error
    /\ ca[v].profile.data # Null
    /\ ca[v].profile.data.has_paid

\* C6: the state machine is fail-closed. A tab shows `paid` only when its
\* evaluation resolved the identity and the lookup returned, without error,
\* a row with has_paid true; a finished evaluation with the identity
\* resolved shows `paid` in that case and `not_paid` in every other.
C6_FailClosed ==
    \A v \in Viewers :
        /\ authStatus[v] = "paid"
            => ca[v].pc = "done" /\ CaIdentityResolved(v) /\ CaLookupGood(v)
        /\ (ca[v].pc = "done" /\ CaIdentityResolved(v))
            => IF CaLookupGood(v) THEN authStatus[v] = "paid"
               ELSE authStatus[v] = "not_paid"

\* a user whose row says has_paid true, shown not_paid because the lookup
\* returned an error
C6_Witness ==
    \E v \in Viewers :
        /\ ca[v].pc = "done"
        /\ CaIdentityResolved(v)
        /\ ca[v].profile.error
        /\ profiles[ca[v].user] = "true"
        /\ authStatus[v] = "not_paid"

\* C7: an evaluation whose identity query returned an error or no user ends
\* in not_logged_in and never queries the profiles table.
C7_NotLoggedIn ==
    \A v \in Viewers :
        (/\ ca[v].pc = "done"
         /\ ca[v].userResult # Null
         /\ ca[v].userResult.kind = "returned"
         /\ (ca[v].userResult.error \/ ca[v].userResult.user = None))
            => /\ authStatus[v] = "not_logged_in"
               /\ ca[v].storeQueries = 0
               /\ ca[v].profile = Null

\* a logged-in, paid user shown not_logged_in because the identity provider
\* returned an error
C7_Witness ==
    \E v \in Viewers :
        /\ ca[v].pc = "done"
        /\ ca[v].userResult # Null
        /\ ca[v].userResult.kind = "returned"
        /\ ca[v].userResult.error
        /\ session[v] # None
        /\ profiles[session[v]] = "true"
        /\ authStatus[v] = "not_logged_in"

\* The gateway's answer carried a result code / carried none.
GatewaySignalledFailure(resp) == resp # Null /\ resp.code # None
GatewaySignalledSuccess(resp) == resp = Null \/ resp.code = None

\* C8: a step in which the gateway answers with a result code leaves the
\* profiles table as it was, shows the payment-failure alert and resets
\* isProcessing, so that the button is enabled again; and the table changes
\* only in a step of a run whose gateway answer carried no result code,
\* which sets has_paid true for that run's user.
C8_FailureMutatesNothing ==
    [][ /\ \A v \in Viewers :
             (/\ hp[v].pc = "gateway"
              /\ hp'[v].pc = "idle"
              /\ GatewaySignalledFailure(hp'[v].response))
                => /\ profiles' = profiles
                   /\ alerts'[v] = "payment_failed"
                   /\ isProcessing'[v] = FALSE
                   /\ authStatus'[v] = "not_paid"
        /\ profiles' # profiles
             => \E v \in Viewers :
                  /\ hp[v].pc = "upsert"
                  /\ GatewaySignalledSuccess(hp[v].response)
                  /\ profiles' = [profiles EXCEPT ![hp[v].user] = "true"]
      ]_vars

\* after a failed payment the button is enabled again and the user's row is
\* not has_paid true
C8_Witness ==
    \E v \in Viewers :
        /\ alerts[v] = "payment_failed"
        /\ GatewaySignalledFailure(hp[v].response)
        /\ PaymentButtonEnabled(v)
        /\ profiles[hp[v].user] # "true"

\* C9: the step in which the upsert is acknowledged flips no flag: it leaves
\* the tab freshly mounted, in `loading`, with checkAuth started again and
\* the row written; and when that evaluation has resolved the same user and
\* its lookup was answered by the table, it ends in `paid`.
C9_ReloadReevaluates ==
    /\ [][ \A v \in Viewers :
             (hp[v].pc = "upsert" /\ hp'[v] = HpIdle)
                => /\ profiles'[hp[v].user] = "true"
                   /\ alerts'[v] = "payment_done"
                   /\ authStatus'[v] = "loading"
                   /\ isProcessing'[v] = FALSE
                   /\ ca'[v] = CaStart
         ]_vars
    /\ [](\A v \in Viewers :
             (/\ reloadedFor[v] # None
              /\ ca[v].pc = "done"
              /\ ca[v].user = reloadedFor[v]
              /\ ca[v].profile.kind = "returned"
              /\ ca[v].profile.cause # "outage")
                => authStatus[v] = "paid")

\* a tab that paid, reloaded and now shows `paid`
C9_Witness ==
    \E v \in Viewers :
        /\ reloadedFor[v] # None
        /\ alerts[v] = "payment_done"
        /\ ca[v].pc = "done"
        /\ authStatus[v] = "paid"

\* C10: whenever the upsert after a successful charge fails, by a returned
\* error or by a thrown exception, the run ends with the
\* paid-but-unrecorded alert.
C10_PaidButUnrecorded ==
    \A v \in Viewers :
        (hp[v].pc = "idle" /\ hp[v].updateResult \in {"error", "thrown"})
            => alerts[v] = "paid_but_unrecorded"

\* The step in which tab v's upsert is acknowledged ({ error: null }).
UpsertAcknowledged(v) == hp[v].pc = "upsert" /\ hp'[v] = HpIdle

\* What the profiles select answers for user u when the table answers it.
GetAnswersPaid(u) ==
    \A res \in SelectOutcomes(u) :
        (res.kind = "returned" /\ res.cause # "outage")
            => ~res.error /\ res.data # Null /\ res.data.has_paid

\* C11: an acknowledged upsert for a user leaves that user's row with has_paid
\* true and every other row as it was, and a select for the user then
\* answers has_paid true; an upsert repeated on a row that is already true
\* changes nothing.
C11_UpsertThenGet ==
    /\ [][ \A v \in Viewers :
             UpsertAcknowledged(v)
                => /\ profiles'[hp[v].user] = "true"
                   /\ \A w \in Users \ {hp[v].user} :
                        profiles'[w] = profiles[w]
                   /\ profiles[hp[v].user] = "true" => profiles' = profiles
         ]_vars
    /\ [](\A v \in Viewers :
             reloadedFor[v] # None
                => /\ profiles[reloadedFor[v]] = "true"
                   /\ GetAnswersPaid(reloadedFor[v]))

\* one tab's upsert for a user is acknowledged and the other tab is about to
\* repeat it on the row that is already true
C11_Witness ==
    \E v, w \in Viewers :
        /\ v # w
        /\ reloadedFor[v] # None
        /\ hp[w].pc = "upsert"
        /\ hp[w].user = reloadedFor[v]
        /\ profiles[hp[w].user] = "true"

\* Tab v's upsert is answered { error: null } and the row is written.
AcknowledgeUpsert(v) ==
    /\ HandlePaymentUpsert(v)
    /\ hp'[v] = HpIdle
    /\ profiles'[hp[v].user] = "true"

\* C12: a handler that has reached the upsert can have it acknowledged
\* whatever the user's row is by then, also when another tab's upsert for the
\* same user came first; and once the upserts of two tabs for the same user
\* are acknowledged the user's row has has_paid true and a select answered by
\* the table says so.
C12_ConcurrentUpserts ==
    \A v \in Viewers :
        /\ hp[v].pc = "upsert" => ENABLED AcknowledgeUpsert(v)
        /\ \A w \in Viewers \ {v} :
             (reloadedFor[v] # None /\ reloadedFor[w] = reloadedFor[v])
                => /\ profiles[reloadedFor[v]] = "true"
                   /\ GetAnswersPaid(reloadedFor[v])

\* both tabs of one user have paid and had their upserts acknowledged
C12_Witness ==
    /\ reloadedFor["tabA"] # None
    /\ reloadedFor["tabB"] = reloadedFor["tabA"]
    /\ alerts["tabA"] = "payment_done"
    /\ alerts["tabB"] = "payment_done"

\* C13: has_paid is monotonic. No step of an evaluation, of a payment in any
\* of its outcomes, or of a mint call takes a row with has_paid true back to
\* false, or removes a row.
C13_HasPaidMonotonic ==
    [][ \A u \in Users :
          /\ profiles[u] = "true" => profiles'[u] = "true"
          /\ profiles[u] # "absent" => profiles'[u] # "absent"
      ]_vars

\* a user already paid who paid again, with an evaluation finished and a mint
\* call answered meanwhile
C13_Witness ==
    \E m \in Mints :
        /\ reloadedFor[Payer] # None
        /\ profiles[reloadedFor[Payer]] = "true"
        /\ ca[Payer].pc = "done"
        /\ Answered(m)
        /\ HasToken(m)

\* Tab v's run has sent its payment request to the gateway.
AtGateway(v) == hp[v].pc \in {"gateway", "upsert"}

\* C14: two payment attempts that have reached the gateway, started in
\* different tabs, carry different paymentId values, also when they are for
\* the same course and user and the clock has not advanced between them.
C14_PaymentIdUnique ==
    \A v, w \in Viewers :
        (v # w /\ AtGateway(v) /\ AtGateway(w))
            => hp[v].paymentId # hp[w].paymentId

C16_PaymentOnlyWhenNotPaid ==
    /\ [][ \A v \in Viewers :
             (hp[v].pc = "idle" /\ hp'[v].pc # "idle")
                => authStatus[v] = "not_paid" /\ ~isProcessing[v]
         ]_vars
    /\ [](\A v \in Viewers :
             authStatus[v] \in {"loading", "not_logged_in", "paid"}
                => /\ ~ENABLED HandlePaymentStart(v)
                   /\ hp[v].pc = "idle"
                   /\ ~isProcessing[v])

\* one tab shows paid and offers no payment while the other, in not_paid,
\* has a payment at the gateway
C16_Witness ==
    \E v, w \in Viewers :
        /\ authStatus[v] = "paid"
        /\ ~ENABLED HandlePaymentStart(v)
        /\ authStatus[w] = "not_paid"
        /\ hp[w].pc = "gateway"

\* C17: a run of handlePayment whose identity query resolves no user ends in
\* that step: no payment id is made and the gateway is not invoked, the
\* profiles table is not written, an alert is shown and isProcessing is
\* false again; a request at the gateway always carries a resolved user.
C17_NoIdentityNoPayment ==
    /\ [][ \A v \in Viewers :
             (hp[v].pc = "getUser" /\ hp'[v].pc # "getUser"
                  /\ hp'[v].user = None)
                => /\ hp'[v].pc = "idle"
                   /\ hp'[v].paymentId = <<>>
                   /\ hp'[v].response = Null
                   /\ profiles' = profiles
                   /\ isProcessing'[v] = FALSE
                   /\ alerts'[v] \in {"login_required", "generic_error"}
         ]_vars
    /\ [](\A v \in Viewers :
             AtGateway(v)
                => hp[v].user \in Users /\ hp[v].paymentId[3] = hp[v].user)

\* a tab in not_paid whose payment run found the session gone
C17_Witness ==
    \E v \in Viewers :
        /\ alerts[v] = "login_required"
        /\ attempts[v] > 0
        /\ hp[v] = HpIdle
        /\ ~isProcessing[v]
        /\ authStatus[v] = "not_paid"

\* getPrivateKey threw in this call / sign threw in this call.
KeyLoadFailed(m) == mint[m].keyLoaded /\ mint[m].privateKey = None
SignFailed(m) == mint[m].signResult = "thrown"

\* C18: a mint call of a paid user with a content id in which getPrivateKey
\* or sign throws is answered 500 with an error body and no token; sign is
\* called at most once in a call, and not at all after a failed key load.
C18_InternalOnKeyOrSignFailure ==
    \A m \in Mints :
        /\ mint[m].signCalls <= 1
        /\ (Answered(m) /\ (KeyLoadFailed(m) \/ SignFailed(m)))
            => /\ ValidSession(m)
               /\ LookupPaid(m)
               /\ mint[m].body \in VideoIds
               /\ response[m].status = 500
               /\ DOMAIN response[m].body = {"error"}
               /\ ~HasToken(m)
               /\ KeyLoadFailed(m) => mint[m].signCalls = 0

\* a paid user's call for a content id that ended in 500 because sign threw
C18_Witness ==
    \E m \in Mints :
        /\ Answered(m)
        /\ SignFailed(m)
        /\ mint[m].signCalls = 1
        /\ profiles[mint[m].user] = "true"
        /\ response[m].status = 500

\* The profiles select of this call failed in the store: it threw, or it
\* returned an error that is not the absence of the row.
LookupFailedInStore(m) ==
    /\ mint[m].profile # Null
    /\ \/ mint[m].profile.kind = "thrown"
       \/ mint[m].profile.cause = "outage"

\* C19: a mint call with a valid session whose entitlement lookup fails in
\* the store is answered 500, not 404.
C19_StoreFailureIsInternal ==
    \A m \in Mints :
        (Answered(m) /\ ValidSession(m) /\ LookupFailedInStore(m))
            => response[m].status = 500

\* The identity check of this call failed: header refused, or the identity
\* provider returned an error or no user.
IdentityRefused(m) ==
    \/ mint[m].authHeader = NoHeader
    \/ mint[m].authHeader[1] # "Bearer "
    \/ /\ mint[m].userResult # Null
       /\ mint[m].userResult.kind = "returned"
       /\ (mint[m].userResult.error \/ mint[m].userResult.user = None)

\* C20: the checks are applied in the order identity, entitlement, videoId,
\* signing, and the first one that fails decides the answer. Whatever the
\* body is, a refused identity gives 401 before any lookup; a valid session
\* without a row gives 404 and one with has_paid false gives 403, before the
\* body is read; 400 is answered only to a paid user, before the key is
\* loaded; and the key is loaded only for a content id.
C20_CheckOrder ==
    \A m \in Mints :
        Answered(m) =>
            /\ IdentityRefused(m)
                => /\ response[m].status = 401
                   /\ mint[m].storeQueries = 0
                   /\ mint[m].videoId = None
            /\ (ValidSession(m) /\ LookupReturned(m) /\ ~LookupPaid(m))
                => /\ response[m].status =
                          (IF mint[m].profile.error THEN 404 ELSE 403)
                   /\ mint[m].videoId = None
                   /\ ~mint[m].keyLoaded
            /\ response[m].status = 400
                => /\ ValidSession(m)
                   /\ LookupPaid(m)
                   /\ mint[m].body \in {None, ""}
                   /\ ~mint[m].keyLoaded
            /\ mint[m].keyLoaded => mint[m].body \in VideoIds

\* an unpaid user's request with the empty videoId is answered 403, not 400
C20_Witness ==
    \E m \in Mints :
        /\ Answered(m)
        /\ ValidSession(m)
        /\ LookupReturned(m)
        /\ ~mint[m].profile.error
        /\ ~mint[m].profile.data.has_paid
        /\ mint[m].body = ""
        /\ response[m].status = 403

\* C21: a mint call of a paid user with a valid session whose body cannot be
\* parsed, or carries no videoId or the empty one, is answered 400.
C21_MalformedIsBadRequest ==
    \A m \in Mints :
        (/\ Answered(m)
         /\ ValidSession(m)
         /\ LookupPaid(m)
         /\ mint[m].body \in {Malformed, None, ""})
            => response[m].status = 400

\* C22: in one tab at most one run of handlePayment is in flight. A run
\* starts only from a tab without a run in flight and sets isProcessing;
\* isProcessing is true exactly while a run is in flight, and as long as it
\* is the payment button is not enabled, so no second run, and no second
\* gateway request, can be started.
C22_OneRunInFlight ==
    /\ [][ \A v \in Viewers :
             (attempts'[v] # attempts[v])
                => /\ hp[v].pc = "idle"
                   /\ ~isProcessing[v]
                   /\ isProcessing'[v]
                   /\ hp'[v].pc = "getUser"
         ]_vars
    /\ [](\A v \in Viewers :
             /\ isProcessing[v] <=> hp[v].pc # "idle"
             /\ hp[v].pc # "idle" => ~PaymentButtonEnabled(v))

\* a tab in not_paid with its payment request at the gateway and its button
\* disabled
C22_Witness ==
    \E v \in Viewers :
        /\ hp[v].pc = "gateway"
        /\ attempts[v] = 1
        /\ isProcessing[v]
        /\ authStatus[v] = "not_paid"
        /\ ~PaymentButtonEnabled(v)

\* C23: `paid` is observed only after the commit. A row becomes has_paid true
\* only in the step in which an upsert for that user is acknowledged; a tab
\* turns to `paid` only in a step that finds the row of the user it resolved
\* already has_paid true; a tab that shows `paid` has no upsert pending and
\* the row of its user is has_paid true; and a tab whose own upsert failed
\* still shows not_paid.
C23_PaidOnlyAfterCommit ==
    /\ [][ /\ \A u \in Users :
                (profiles[u] # "true" /\ profiles'[u] = "true")
                    => \E v \in Viewers :
                         UpsertAcknowledged(v) /\ hp[v].user = u
           /\ \A v \in Viewers :
                (authStatus[v] # "paid" /\ authStatus'[v] = "paid")
                    => /\ ca'[v].user \in Users
                       /\ profiles[ca'[v].user] = "true"
         ]_vars
    /\ [](\A v \in Viewers :
             /\ authStatus[v] = "paid"
                  => /\ hp[v].pc = "idle"
                     /\ ca[v].user \in Users
                     /\ profiles[ca[v].user] = "true"
             /\ (hp[v].pc = "idle" /\ hp[v].updateResult \in {"error", "thrown"})
                  => authStatus[v] = "not_paid")

\* one tab shows `paid` after its upsert was acknowledged, while the other
\* tab of the same user, whose own upsert failed, still shows not_paid
C23_Witness ==
    \E v, w \in Viewers :
        /\ v # w
        /\ authStatus[w] = "paid"
        /\ reloadedFor[w] = ca[w].user
        /\ hp[v].updateResult = "error"
        /\ hp[v].user = reloadedFor[w]
        /\ authStatus[v] = "not_paid"

\* The select of call m is answered by the table with the row as it is now.
ReadsCurrentRow(m) ==
    LET row == profiles[mint[m].user]
        res == mint'[m].profile
    IN (res.kind = "returned" /\ res.cause # "outage")
          => /\ res.cause = "no_row" <=> row = "absent"
             /\ res.cause = "ok" => res.data.has_paid = (row = "true")

\* The select of call m can be answered now with a row that has_paid.
PaidLookup(m) == MintLookup(m) /\ mint'[m].pc = "body"

\* C24: mint calls share nothing. A step of one call leaves the other call's
\* locals and answer and the table as they are; every call that has a user
\* makes its own select, answered from the row as it is at that moment,
\* whatever another call read before; a call's answer follows from what the
\* call itself received and read (token exactly when its own select returned
\* has_paid true and key and signature did not fail, with its own videoId and
\* its own clock reading; 403 and 404 from its own select); and a call at
\* its select gets through whenever the user's row is has_paid true by then,
\* also after a refusal of the same user.
C24_CallsIndependent ==
    /\ [][ \A m \in ParallelMints :
             /\ mint'[m] # mint[m]
                  => /\ profiles' = profiles
                     /\ \A n \in ParallelMints \ {m} :
                          mint'[n] = mint[n] /\ response'[n] = response[n]
             /\ (mint[m].pc = "lookup" /\ mint'[m].pc # "lookup")
                  => /\ mint'[m].storeQueries = 1
                     /\ ReadsCurrentRow(m)
         ]_vars
    /\ [](\A m \in ParallelMints :
             /\ Answered(m) =>
                  /\ HasToken(m) <=> /\ LookupPaid(m)
                                     /\ mint[m].privateKey = "key"
                                     /\ mint[m].signResult = "ok"
                  /\ HasToken(m) =>
                       /\ response[m].body.token.sub = Wanted[m]
                       /\ response[m].body.token.exp
                              = ExpirationTime(mint[m].dateNow)
                       /\ profiles[mint[m].user] = "true"
                  /\ response[m].status \in {403, 404} =>
                       /\ LookupReturned(m)
                       /\ ~LookupPaid(m)
                       /\ response[m].status
                              = (IF mint[m].profile.error THEN 404 ELSE 403)
             /\ (mint[m].pc = "lookup" /\ profiles[mint[m].user] = "true")
                  => ENABLED PaidLookup(m))

\* a user refused with 403, who then paid, gets a token from the other call
C24_Witness ==
    \E m, n \in ParallelMints :
        /\ m # n
        /\ Answered(m)
        /\ response[m].status = 403
        /\ mint[m].user = "u1"
        /\ reloadedFor[Payer] = "u1"
        /\ HasToken(n)
        /\ mint[n].user = "u1"

\* C25: only the payment handler's success path writes the profiles table.
\* Every step of a mint call and every step of an evaluation, whatever its
\* outcome, leaves the table as it was; a step that changes the table is the
\* step of a payment run whose gateway answer carried no result code and
\* whose upsert is acknowledged.
C25_OnlyPaymentWrites ==
    [][ /\ \A m \in Mints :
             (mint'[m] # mint[m] \/ response'[m] # response[m])
                => profiles' = profiles
        /\ \A v \in Viewers :
             (ca[v].pc \in {"getUser", "lookup"} /\ ca'[v].pc # ca[v].pc)
                => profiles' = profiles
        /\ profiles' # profiles
             => \E v \in Viewers :
                  /\ UpsertAcknowledged(v)
                  /\ GatewaySignalledSuccess(hp[v].response)
                  /\ alerts'[v] = "payment_done"
      ]_vars

\* a user without a row, after an evaluation that ended in not_paid and a
\* mint call answered 404 for that user: still no row
C25_Witness ==
    \E m \in Mints :
        /\ Answered(m)
        /\ response[m].status = 404
        /\ ca[Payer].pc = "done"
        /\ authStatus[Payer] = "not_paid"
        /\ ca[Payer].user = mint[m].user
        /\ profiles[mint[m].user] = "absent"

\* C26: an evaluation that has ended, whatever the identity and profiles
\* queries answered (a value, a returned error, a rejection), has left
\* `loading` and shows one of not_logged_in, not_paid, paid.
C26_EvaluationResolves ==
    \A v \in Viewers :
        ca[v].pc \in {"done", "rejected"}
            => authStatus[v] \in {"not_logged_in", "not_paid", "paid"}

\* C27: a tab that presents the content to its `paid` viewer has before that
\* obtained a signed token from the minting service: a mint call for the
\* tab's user has been answered with a token.
C27_TokenBeforePlayback ==
    \A v \in Viewers :
        VideoPlayerShown(v)
            => \E m \in Mints : HasToken(m) /\ mint[m].user = ca[v].user

\* The gateway has answered tab v's payment request with a success.
Charged(v) ==
    /\ hp[v].pc = "upsert"
    /\ hp[v].response # Null
    /\ GatewaySignalledSuccess(hp[v].response)

\* C28: payment is one-time per user. No payment request goes to the gateway
\* for a user whose row already has has_paid true, and two tabs never hold
\* successful charges of two different payments for the same user.
C28_OneTimePayment ==
    /\ [][ \A v \in Viewers :
             (hp[v].pc = "getUser" /\ hp'[v].pc = "gateway")
                => profiles[hp'[v].user] # "true"
         ]_vars
    /\ [](\A v, w \in Viewers :
             (/\ v # w
              /\ Charged(v)
              /\ Charged(w)
              /\ hp[v].paymentId # hp[w].paymentId)
                => hp[v].user # hp[w].user)

\* The three refusals of a mint call that speak about identity or entitlement.
EntitlementRefusals == {401, 403, 404}

\* C29: the state machine and the minting service agree. When an evaluation
\* and a mint call for a content id have resolved the same user and their
\* selects of has_paid got the same answer, the tab shows `paid` exactly when
\* the mint call was not refused with 401, 403 or 404.
C29_ClientAndMintAgree ==
    \A v \in Viewers, m \in Mints :
        (/\ Answered(m)
         /\ ValidSession(m)
         /\ mint[m].body \in VideoIds
         /\ LookupReturned(m)
         /\ ca[v].pc = "done"
         /\ CaIdentityResolved(v)
         /\ ca[v].user = mint[m].user
         /\ ca[v].profile = mint[m].profile)
            => (authStatus[v] = "paid"
                    <=> response[m].status \notin EntitlementRefusals)

\* a tab that shows `paid` and a mint call that returned a token, for the
\* same user and the same answer of the table
C29_Witness ==
    \E v \in Viewers, m \in Mints :
        /\ HasToken(m)
        /\ ca[v].pc = "done"
        /\ authStatus[v] = "paid"
        /\ ca[v].user = mint[m].user
        /\ ca[v].profile = mint[m].profile

\* The statuses an evaluation can end in.
Resolved == {"not_logged_in", "not_paid", "paid"}

\* C30: within one mount authStatus is set at most once. It changes only in
\* the step in which the evaluation ends, from `loading` to a resolved
\* status, or in the step in which the page reloads after an acknowledged
\* upsert, which mounts the component afresh in `loading`; no other step, and
\* no other outcome of handlePayment, changes it.
C30_AuthStatusSetOnce ==
    [][ \A v \in Viewers :
          authStatus'[v] # authStatus[v]
             => \/ /\ authStatus[v] = "loading"
                   /\ authStatus'[v] \in Resolved
                   /\ ca[v].pc \in {"getUser", "lookup"}
                   /\ ca'[v].pc = "done"
                   /\ hp'[v] = hp[v]
                \/ /\ UpsertAcknowledged(v)
                   /\ authStatus[v] = "not_paid"
                   /\ authStatus'[v] = "loading"
                   /\ ca'[v] = CaStart
      ]_vars

\* a tab still in not_paid after a payment run that charged the user and
\* then failed to record it
C30_Witness ==
    \E v \in Viewers :
        /\ ca[v].pc = "done"
        /\ authStatus[v] = "not_paid"
        /\ alerts[v] = "paid_but_unrecorded"
        /\ hp[v].pc = "idle"

====
